---- MODULE Spec2Model ----
(***************************************************************************)
(* Model of src/script.js: the client-side controllers of the personal     *)
(* trainer landing page.  Each controller owns a group of variables; each  *)
(* specification below exercises one controller and keeps the other groups *)
(* at their idle values.                                                   *)
(***************************************************************************)
EXTENDS Integers, Sequences, FiniteSets, TLC

\* ---------------------------------------------------------------- bounds
MaxSlides == 3
MaxIndicators == 3
MaxIndex == 4
MaxRun == 4
MaxTimers == 2
MaxTouches == 1
InnerHeight == 2
CarouselHeight == 2
MaxFaq == 6
MaxReveal == 3
MaxCount == 2
MaxSubmits == 2
MaxEmailLen == 6
MaxFocusable == 3

\* ------------------------------------------------------ program constants
null == 0
SwipeThreshold == 50
TrackStep == 100
MinNameLength == 2
MaxPhoneDigits == 11
ShortFormatAbove == 2
LongFormatAbove == 6
TabletBreakpoint == 1024

VARIABLES
    \* TransformationsCarousel
    carousel,           \* document.getElementById('transformationsCarousel') found
    totalSlides,        \* this.totalSlides
    numIndicators,      \* this.indicators.length
    currentSlide,       \* this.currentSlide
    trackTranslateX,    \* percentage in this.track.style.transform
    activeCards,        \* positions of the cards carrying class 'active'
    activeIndicators,   \* positions of the indicators carrying class 'active'
    autoplayInterval,   \* this.autoplayInterval (null or a timer handle)
    liveTimers,         \* interval timers set and not yet cleared
    startX,             \* closure variable of setupTouchEvents
    currentX,           \* closure variable of setupTouchEvents
    isDragging,         \* closure variable of setupTouchEvents
    touches,            \* fingers currently on the carousel
    pointerOver,        \* the mouse pointer is over the carousel
    rectTop,            \* carousel.getBoundingClientRect().top
    run,                \* history: the current run of consecutive next/prev calls
    moved,              \* history: a touchmove was seen since the last touchstart or touchend
    lastKey             \* history: the key of the keydown handled last, if it ran last

carouselVars == <<carousel, totalSlides, numIndicators, currentSlide,
                  trackTranslateX, activeCards, activeIndicators,
                  autoplayInterval, liveTimers, startX, currentX, isDragging,
                  touches, pointerOver, rectTop, run, moved, lastKey>>

VARIABLES
    \* FAQManager
    faqItems,           \* number of .faq-item elements
    faqActive,          \* the items carrying class 'active'
    faqAriaExpanded,    \* aria-expanded of each item's question
    faqLast             \* history: the last toggleFAQ call

faqVars == <<faqItems, faqActive, faqAriaExpanded, faqLast>>

VARIABLES
    \* AnimationManager.setupIntersectionObserver,
    \* TestimonialsAnimations.setupScrollAnimations and
    \* SectionsUtils.addScrollRevealAnimation
    className,          \* the class by which the observers select each element
    observed,           \* the elements each observer still observes
    opacity,            \* style.opacity of each element ("" when never set)
    fadeUp,             \* the elements carrying class 'animate-fade-up'
    intersecting,       \* whether each element intersects the viewport now
    reported,           \* the last isIntersecting each observer delivered
    revealTimers,       \* the pending setTimeout calls of TestimonialsAnimations
    revealCount         \* history: reveal actions each observer applied

revealVars == <<className, observed, opacity, fadeUp, intersecting, reported,
                revealTimers, revealCount>>

VARIABLES
    \* FormManager
    fields,             \* the values of the contact form's controls
    button,             \* the submit button: textContent, disabled, class 'loading'
    sub,                \* the submit events so far and the progress of each
    submitted,          \* number of submit events so far
    errorPanel,         \* the .error-container in the form, if any
    errorTimers,        \* error containers whose removal timer is pending
    successPanels,      \* the .success-container elements in the form
    successTimers,      \* success containers whose removal timer is pending
    phoneTyped          \* history: the phone control's value as the last input event found it

formVars == <<fields, button, sub, submitted, errorPanel, errorTimers,
              successPanels, successTimers, phoneTyped>>

VARIABLES
    \* Utils.isValidEmail
    emailInput,         \* the string under test
    emailVerdict        \* isValidEmail's answer for it

emailVars == <<emailInput, emailVerdict>>

VARIABLES
    \* NavigationManager and AccessibilityManager: the mobile menu
    navMenuActive,      \* #nav-menu carries class 'active'
    navToggleActive,    \* #nav-toggle carries class 'active'
    bodyOverflow,       \* document.body.style.overflow
    ariaExpanded,       \* aria-expanded of #nav-toggle
    ariaLabel,          \* aria-label of #nav-toggle
    mutationPending,    \* a mutation record of #nav-menu awaits the observer's callback
    numFocusable,       \* focusableElements.length
    activeElement,      \* document.activeElement (see FocusPositions)
    innerWidth,         \* window.innerWidth
    resizeTimeout,      \* the debounce timer of the resize listener is pending
    menuEvent,          \* history: the event whose handlers ran last
    writers             \* history: the controllers that have written each piece of DOM state

menuVars == <<navMenuActive, navToggleActive, bodyOverflow, ariaExpanded,
              ariaLabel, mutationPending, numFocusable, activeElement,
              innerWidth, resizeTimeout, menuEvent, writers>>

VARIABLES
    \* App and NewSectionsManager: the bootstrap
    dom,                \* which of the elements the controllers look up exist
    readyState,         \* document.readyState
    scriptPc,           \* the top-level statement of script.js to run next
    domListeners,       \* the DOMContentLoaded listeners registered, in order
    constructed         \* the controllers whose constructor has returned

bootVars == <<dom, readyState, scriptPc, domListeners, constructed>>

VARIABLES
    \* NavigationManager.handleScroll / updateActiveLink
    sectionTop,         \* offsetTop of each section[id], in document order
    sectionHeight,      \* offsetHeight of each section[id]
    scrollY,            \* window.scrollY
    activeLinks,        \* the .nav-link elements carrying class 'active'
    headerSolid,        \* the header has its scrolled background and shadow
    scrollHandled       \* history: handleScroll has run since the page last scrolled

navVars == <<sectionTop, sectionHeight, scrollY, activeLinks, headerSolid,
             scrollHandled>>

VARIABLES
    \* Utils.throttle and Utils.debounce, each wrapping one handler
    now,                \* the time
    inThrottle,         \* closure variable of throttle
    throttleTimer,      \* when throttle's pending setTimeout fires, if any
    throttleLog,        \* history: the triggers of the throttled function
    timeout,            \* closure variable of debounce: the pending timer, if any
    debounceLog         \* history: the triggers of the debounced function and the calls made

timingVars == <<now, inThrottle, throttleTimer, throttleLog, timeout, debounceLog>>

VARIABLES
    \* FormManager.handleFormValidation: inline errors
    required,           \* the controls carrying the `required` attribute
    fieldErrors,        \* the .field-error spans beside each control
    errorClass,         \* the controls carrying class 'error'
    lastBlur            \* history: the control whose blur handler ran last, if no input followed

fieldVars == <<required, fieldErrors, errorClass, lastBlur>>

vars == <<carouselVars, faqVars, revealVars, formVars, emailVars, menuVars,
          bootVars, navVars, timingVars, fieldVars>>

\* =================================================== TransformationsCarousel

\* Touch positions around the swipe threshold.
XCoords == {0, SwipeThreshold, SwipeThreshold + 1}

\* Positions of the carousel's top edge around the viewport's two edges.
RectTops == {-CarouselHeight - 1, -CarouselHeight, 0, InnerHeight - 1, InnerHeight}

Keys == {"ArrowLeft", "ArrowRight", "Enter"}

Abs(x) == IF x < 0 THEN -x ELSE x

NoRun == [kind |-> "none", start |-> 0, len |-> 0]

\* prevSlide's new index.
PrevIndex(cur, n) == IF cur = 0 THEN n - 1 ELSE cur - 1

\* nextSlide wrapping one position too late.
NextIndexLate(cur, n) == IF cur = n THEN 0 ELSE cur + 1

\* nextSlide's new index.
NextIndex(cur, n) == IF cur = n - 1 THEN 0 ELSE cur + 1

\* The positions among `count` elements that classList.toggle('active',
\* index === currentSlide) leaves active.
ActiveAt(cur, count) == {i \in 0..(count - 1) : i = cur}

\* updateCarousel for the new index cur.
UpdateCarousel(cur) ==
    /\ trackTranslateX' = (-cur) * TrackStep
    /\ activeCards' = ActiveAt(cur, totalSlides)
    /\ activeIndicators' = ActiveAt(cur, numIndicators)

\* The history of consecutive calls: a call of the same kind extends the
\* run, any other call starts a new one.
Extend(kind) ==
    IF run.kind = kind /\ run.len < MaxRun
    THEN [run EXCEPT !.len = @ + 1]
    ELSE [kind |-> kind, start |-> currentSlide, len |-> 1]

\* The counter stays inside the modelled range (an empty carousel counts
\* without limit).
InRange(cur) == cur \in (-MaxIndex)..MaxIndex

prevSlide ==
    /\ InRange(PrevIndex(currentSlide, totalSlides))
    /\ currentSlide' = PrevIndex(currentSlide, totalSlides)
    /\ UpdateCarousel(currentSlide')
    /\ run' = Extend("prev")

nextSlide ==
    /\ InRange(NextIndex(currentSlide, totalSlides))
    /\ currentSlide' = NextIndex(currentSlide, totalSlides)
    /\ UpdateCarousel(currentSlide')
    /\ run' = Extend("next")

goToSlide(index) ==
    /\ currentSlide' = index
    /\ UpdateCarousel(index)
    /\ run' = NoRun

renderVars == <<currentSlide, trackTranslateX, activeCards, activeIndicators, run>>

\* startAutoplay without its call of stopAutoplay: the old timer stays.
StoppedTimersKept == liveTimers

\* stopAutoplay: the live timers and the handle afterwards.
StoppedTimers == IF autoplayInterval # null THEN liveTimers \ {autoplayInterval}
                 ELSE liveTimers

\* setInterval's handle: one that names no live timer.
NewTimer(live) == CHOOSE t \in 1..MaxTimers : t \notin live /\ \A u \in 1..(t - 1) : u \in live

stopAutoplay ==
    /\ liveTimers' = StoppedTimers
    /\ autoplayInterval' = null

startAutoplay ==
    /\ \E t \in 1..MaxTimers : t \notin StoppedTimers
    /\ autoplayInterval' = NewTimer(StoppedTimers)
    /\ liveTimers' = StoppedTimers \cup {autoplayInterval'}

\* isCarouselInView without its test of the bottom edge.
isCarouselInViewTopOnly == rectTop < InnerHeight

\* isCarouselInView: rect.top < window.innerHeight && rect.bottom > 0.
isCarouselInView == rectTop < InnerHeight /\ rectTop + CarouselHeight > 0

fixedVars == <<carousel, totalSlides, numIndicators>>
touchVars == <<startX, currentX, isDragging, touches>>
timerVars == <<autoplayInterval, liveTimers>>

\* The other controllers' groups, for the actions of this one.
notCarousel == <<faqVars, revealVars, formVars, emailVars, menuVars, bootVars,
    navVars, timingVars, fieldVars>>

\* The state after `new TransformationsCarousel()`.  Without the carousel
\* element init() is not run and no listener is registered.
CarouselInit ==
    /\ carousel \in BOOLEAN
    /\ totalSlides \in IF carousel THEN 0..MaxSlides ELSE {0}
    /\ numIndicators \in 0..MaxIndicators
    /\ currentSlide = 0
    /\ trackTranslateX = 0
    /\ activeCards = IF carousel THEN ActiveAt(0, totalSlides) ELSE {}
    /\ activeIndicators = IF carousel THEN ActiveAt(0, numIndicators) ELSE {}
    /\ autoplayInterval = IF carousel THEN 1 ELSE null
    /\ liveTimers = IF carousel THEN {1} ELSE {}
    /\ startX = 0
    /\ currentX = 0
    /\ isDragging = FALSE
    /\ touches = 0
    /\ pointerOver = FALSE
    /\ rectTop \in RectTops
    /\ run = NoRun
    /\ moved = FALSE
    /\ lastKey = "none"

PrevClick ==
    /\ carousel
    /\ prevSlide
    /\ lastKey' = "none"
    /\ UNCHANGED <<fixedVars, touchVars, timerVars, pointerOver, rectTop, moved,
                   notCarousel>>

NextClick ==
    /\ carousel
    /\ nextSlide
    /\ lastKey' = "none"
    /\ UNCHANGED <<fixedVars, touchVars, timerVars, pointerOver, rectTop, moved,
                   notCarousel>>

IndicatorClick ==
    /\ carousel
    /\ \E index \in 0..(numIndicators - 1) : goToSlide(index)
    /\ lastKey' = "none"
    /\ UNCHANGED <<fixedVars, touchVars, timerVars, pointerOver, rectTop, moved,
                   notCarousel>>

MouseEnter ==
    /\ carousel
    /\ ~pointerOver
    /\ pointerOver' = TRUE
    /\ stopAutoplay
    /\ lastKey' = "none"
    /\ UNCHANGED <<fixedVars, touchVars, renderVars, rectTop, moved, notCarousel>>

MouseLeave ==
    /\ carousel
    /\ pointerOver
    /\ pointerOver' = FALSE
    /\ startAutoplay
    /\ lastKey' = "none"
    /\ UNCHANGED <<fixedVars, touchVars, renderVars, rectTop, moved, notCarousel>>

TouchStart ==
    /\ carousel
    /\ touches < MaxTouches
    /\ touches' = touches + 1
    /\ \E x \in XCoords : startX' = x
    /\ moved' = FALSE
    /\ isDragging' = TRUE
    /\ stopAutoplay
    /\ lastKey' = "none"
    /\ UNCHANGED <<fixedVars, currentX, renderVars, pointerOver, rectTop, notCarousel>>

TouchMove ==
    /\ carousel
    /\ touches > 0
    /\ \E x \in XCoords : currentX' = IF isDragging THEN x ELSE currentX
    /\ moved' = TRUE
    /\ lastKey' = "none"
    /\ UNCHANGED <<fixedVars, startX, isDragging, touches, timerVars,
                   renderVars, pointerOver, rectTop, notCarousel>>

TouchEnd ==
    /\ carousel
    /\ touches > 0
    /\ touches' = touches - 1
    /\ IF ~isDragging
       THEN UNCHANGED <<isDragging, timerVars, renderVars>>
       ELSE /\ IF Abs(startX - currentX) > SwipeThreshold
               THEN IF startX - currentX > 0 THEN nextSlide ELSE prevSlide
               ELSE UNCHANGED renderVars
            /\ isDragging' = FALSE
            /\ startAutoplay
    /\ moved' = FALSE
    /\ lastKey' = "none"
    /\ UNCHANGED <<fixedVars, startX, currentX, pointerOver, rectTop, notCarousel>>

KeyDown ==
    /\ carousel
    /\ \E key \in Keys :
         /\ IF ~isCarouselInView THEN UNCHANGED renderVars
            ELSE IF key = "ArrowLeft" THEN prevSlide
            ELSE IF key = "ArrowRight" THEN nextSlide
            ELSE UNCHANGED renderVars
         /\ lastKey' = key
    /\ UNCHANGED <<fixedVars, touchVars, timerVars, pointerOver, rectTop, moved,
                   notCarousel>>

AutoplayTick ==
    /\ carousel
    /\ \E t \in liveTimers : nextSlide
    /\ lastKey' = "none"
    /\ UNCHANGED <<fixedVars, touchVars, timerVars, pointerOver, rectTop, moved,
                   notCarousel>>

\* The page scrolls: the carousel's box moves relative to the viewport.
PageScroll ==
    /\ carousel
    /\ \E t \in RectTops : t # rectTop /\ rectTop' = t
    /\ lastKey' = "none"
    /\ UNCHANGED <<fixedVars, touchVars, timerVars, renderVars, pointerOver,
                   moved, notCarousel>>

CarouselNext ==
    \/ PrevClick
    \/ NextClick
    \/ IndicatorClick
    \/ MouseEnter
    \/ MouseLeave
    \/ TouchStart
    \/ TouchMove
    \/ TouchEnd
    \/ KeyDown
    \/ AutoplayTick
    \/ PageScroll

\* No carousel on the page, for the specifications of the other controllers.
CarouselIdle ==
    /\ carousel = FALSE
    /\ totalSlides = 0
    /\ numIndicators = 0
    /\ currentSlide = 0
    /\ trackTranslateX = 0
    /\ activeCards = {}
    /\ activeIndicators = {}
    /\ autoplayInterval = null
    /\ liveTimers = {}
    /\ startX = 0
    /\ currentX = 0
    /\ isDragging = FALSE
    /\ touches = 0
    /\ pointerOver = FALSE
    /\ rectTop = 0
    /\ run = NoRun
    /\ moved = FALSE
    /\ lastKey = "none"

\* ================================================================ FAQManager

FaqKeys == {"Enter", " ", "Tab"}

FaqItemSet == 1..faqItems

NoToggle == [item |-> 0, wasActive |-> FALSE, by |-> "none"]

\* toggleFAQ opening an item without closing the others.
ToggleFAQKeepOthers(active, item) ==
    IF item \in active THEN active \ {item} ELSE active \cup {item}

\* toggleFAQ(item): the items carrying 'active' afterwards.
ToggleFAQ(active, item) ==
    IF item \in active
    THEN active \ {item}
    ELSE ((active \ FaqItemSet) \cup {item})

notFaq == <<carouselVars, revealVars, formVars, emailVars, menuVars, bootVars,
    navVars, timingVars, fieldVars>>

\* The state after `new FAQManager()`: every question gets
\* aria-expanded 'false'; the items start closed.
FaqInit ==
    /\ faqItems \in 0..MaxFaq
    /\ faqActive = {}
    /\ faqAriaExpanded = [i \in FaqItemSet |-> "false"]
    /\ faqLast = NoToggle

toggleFAQ(item, by) ==
    /\ faqActive' = ToggleFAQ(faqActive, item)
    /\ faqLast' = [item |-> item, wasActive |-> item \in faqActive, by |-> by]
    /\ UNCHANGED <<faqItems, faqAriaExpanded>>

\* click on an item's question.
FaqClick ==
    /\ \E item \in FaqItemSet : toggleFAQ(item, "click")
    /\ UNCHANGED notFaq

\* keydown on an item's question.
FaqKeyDown ==
    /\ \E item \in FaqItemSet, key \in FaqKeys :
         IF key = "Enter" \/ key = " "
         THEN toggleFAQ(item, key)
         ELSE UNCHANGED faqVars
    /\ UNCHANGED notFaq

FaqNext ==
    \/ FaqClick
    \/ FaqKeyDown

FaqIdle ==
    /\ faqItems = 0
    /\ faqActive = {}
    /\ faqAriaExpanded = << >>
    /\ faqLast = NoToggle

\* ========================================================= reveal on scroll

RevealElems == 1..MaxReveal

\* One class for each way the three observers share an element.
Classes == {"service-card", "tip-card", "testimonial-card"}

Owners == {"AnimationManager", "TestimonialsAnimations", "SectionsUtils"}

\* The delay between the reveals of one batch of testimonial cards.
StaggerStep == 100

\* The selector each controller queries its elements with.
Selects(owner, class) ==
    CASE owner = "AnimationManager" -> class = "service-card"
      [] owner = "TestimonialsAnimations" -> class = "testimonial-card"
      [] OTHER -> class \in {"tip-card", "testimonial-card"}

Targets(owner) == {e \in RevealElems : Selects(owner, className[e])}

\* A callback that keeps observing the elements it revealed.
UnobserveNothing(obs, targets) == obs

\* observer.unobserve(entry.target), for each revealed target.
Unobserve(obs, targets) == obs \ targets

\* An element is in the revealed visual state an observer gives it.
Revealed(owner, e) ==
    IF owner = "SectionsUtils" THEN e \in fadeUp ELSE opacity[e] = "1"

Bump(c) == IF c < MaxCount THEN c + 1 ELSE c

notReveal == <<carouselVars, faqVars, formVars, emailVars, menuVars, bootVars,
    navVars, timingVars, fieldVars>>

\* The state after the three observers were set up: AnimationManager and
\* TestimonialsAnimations hide their elements, SectionsUtils leaves the
\* classes as they are; every observer observes its elements and no entry
\* was delivered yet.
RevealInit ==
    /\ className \in [RevealElems -> Classes]
    /\ observed = [o \in Owners |-> Targets(o)]
    /\ opacity = [e \in RevealElems |->
                    IF className[e] \in {"service-card", "testimonial-card"}
                    THEN "0" ELSE ""]
    /\ fadeUp = {}
    /\ intersecting \in [RevealElems -> BOOLEAN]
    /\ reported = [o \in Owners |-> [e \in RevealElems |-> "none"]]
    /\ revealTimers = {}
    /\ revealCount = [o \in Owners |-> [e \in RevealElems |-> 0]]

\* Scrolling or resizing moves elements into and out of the viewport.
ViewportChange ==
    /\ \E e \in RevealElems : intersecting' = [intersecting EXCEPT ![e] = ~@]
    /\ UNCHANGED <<className, observed, opacity, fadeUp, reported, revealTimers,
                   revealCount>>
    /\ UNCHANGED notReveal

AsReport(b) == IF b THEN "in" ELSE "out"

\* The entries an observer has to deliver: observed elements whose
\* intersection differs from the one last delivered.
Pending(owner) ==
    {e \in observed[owner] : reported[owner][e] # AsReport(intersecting[e])}

\* The index of the entry of e in a batch over the elements S.
EntryIndex(S, e) == Cardinality({x \in S : x < e})

\* One run of an observer's callback over the entries of the elements in S.
ObserverCallback(owner, S) ==
    LET hit == {e \in S : intersecting[e]} IN
    /\ reported' = [reported EXCEPT ![owner] =
                      [e \in RevealElems |->
                          IF e \in S THEN AsReport(intersecting[e]) ELSE @[e]]]
    /\ opacity' = [e \in RevealElems |->
                     IF e \in hit /\ owner = "AnimationManager" THEN "1" ELSE opacity[e]]
    /\ fadeUp' = IF owner = "SectionsUtils" THEN fadeUp \cup hit ELSE fadeUp
    /\ revealTimers' =
         IF owner = "TestimonialsAnimations"
         THEN revealTimers \cup
                {[target |-> e, batch |-> S, delay |-> EntryIndex(S, e) * StaggerStep] :
                    e \in hit}
         ELSE revealTimers
    /\ revealCount' = [revealCount EXCEPT ![owner] =
                         [e \in RevealElems |->
                             IF e \in hit /\ owner # "TestimonialsAnimations"
                             THEN Bump(@[e]) ELSE @[e]]]
    /\ observed' = [observed EXCEPT ![owner] = Unobserve(@, hit)]
    /\ UNCHANGED <<className, intersecting>>

AnimationCallback ==
    /\ \E S \in (SUBSET Pending("AnimationManager")) \ {{}} :
         ObserverCallback("AnimationManager", S)
    /\ UNCHANGED notReveal

SectionsCallback ==
    /\ \E S \in (SUBSET Pending("SectionsUtils")) \ {{}} :
         ObserverCallback("SectionsUtils", S)
    /\ UNCHANGED notReveal

TestimonialsCallback ==
    /\ \E S \in (SUBSET Pending("TestimonialsAnimations")) \ {{}} :
         ObserverCallback("TestimonialsAnimations", S)
    /\ UNCHANGED notReveal

\* A timer set by the callback of TestimonialsAnimations fires; the timers of
\* one batch fire in the order of their delays.
TestimonialsTimeout ==
    /\ \E t \in revealTimers :
        /\ \A u \in revealTimers : u.batch = t.batch => u.delay >= t.delay
        /\ opacity' = [opacity EXCEPT ![t.target] = "1"]
        /\ revealCount' = [revealCount EXCEPT
                             !["TestimonialsAnimations"][t.target] = Bump(@)]
        /\ revealTimers' = revealTimers \ {t}
    /\ UNCHANGED <<className, observed, fadeUp, intersecting, reported>>
    /\ UNCHANGED notReveal

RevealNext ==
    \/ ViewportChange
    \/ AnimationCallback
    \/ SectionsCallback
    \/ TestimonialsCallback
    \/ TestimonialsTimeout

RevealIdle ==
    /\ className = << >>
    /\ observed = [o \in Owners |-> {}]
    /\ opacity = << >>
    /\ fadeUp = {}
    /\ intersecting = << >>
    /\ reported = [o \in Owners |-> << >>]
    /\ revealTimers = {}
    /\ revealCount = [o \in Owners |-> << >>]

\* ===================================================================== Utils

\* Strings are sequences of one-character strings.
Digits == {"0", "1", "2", "3", "4", "5", "6", "7", "8", "9"}

\* \s, as far as the modelled alphabet goes.
Whitespace == {" "}

\* One element of a regular expression: a character class and a quantifier
\* ("1" exactly once, "?" optional, "+" one or more).
Lit(c) == [cls |-> "lit", ch |-> c, q |-> "1"]
Opt(c) == [cls |-> "lit", ch |-> c, q |-> "?"]
Digit == [cls |-> "digit", ch |-> "", q |-> "1"]
OptSpace == [cls |-> "space", ch |-> "", q |-> "?"]
NotSpaceAtPlus == [cls |-> "nsa", ch |-> "", q |-> "+"]

InClass(c, item) ==
    CASE item.cls = "lit" -> c = item.ch
      [] item.cls = "digit" -> c \in Digits
      [] item.cls = "space" -> c \in Whitespace
      [] item.cls = "nsa" -> c \notin (Whitespace \cup {"@"})

\* RegExp.prototype.test for a pattern anchored with ^ and $: the whole of s
\* is consumed by the elements of pat, in order.
RECURSIVE Matches(_, _)
Matches(pat, s) ==
    IF pat = << >> THEN s = << >>
    ELSE LET item == Head(pat) IN
         \/ item.q = "?" /\ Matches(Tail(pat), s)
         \/ /\ s # << >>
            /\ InClass(Head(s), item)
            /\ \/ Matches(Tail(pat), Tail(s))
               \/ item.q = "+" /\ Matches(pat, Tail(s))

\* /^[^\s@]+@[^\s@]+\.[^\s@]+$/
EmailRegex == <<NotSpaceAtPlus, Lit("@"), NotSpaceAtPlus, Lit("."), NotSpaceAtPlus>>

\* The pattern without its dot part: /^[^\s@]+@[^\s@]+$/.
isValidEmailNoDot(email) ==
    Matches(<<NotSpaceAtPlus, Lit("@"), NotSpaceAtPlus>>, email)

isValidEmail(email) == Matches(EmailRegex, email)

\* /^(\(\d{2}\)|\d{2})\s?9?\d{4}-?\d{4}$/, one sequence per alternative.
PhoneRest == <<OptSpace, Opt("9"), Digit, Digit, Digit, Digit, Opt("-"),
               Digit, Digit, Digit, Digit>>
PhoneRegexParen == <<Lit("("), Digit, Digit, Lit(")")>> \o PhoneRest
PhoneRegexBare == <<Digit, Digit>> \o PhoneRest

\* String.prototype.replace(/\s/g, '')
StripSpaces(s) == SelectSeq(s, LAMBDA c : c \notin Whitespace)

\* String.prototype.replace(/\D/g, '')
StripNonDigits(s) == SelectSeq(s, LAMBDA c : c \in Digits)

isValidPhone(phone) ==
    LET p == StripSpaces(phone) IN
    Matches(PhoneRegexParen, p) \/ Matches(PhoneRegexBare, p)

\* String.prototype.trim
RECURSIVE TrimLeft(_)
TrimLeft(s) ==
    IF s # << >> /\ Head(s) \in Whitespace THEN TrimLeft(Tail(s)) ELSE s

RECURSIVE TrimRight(_)
TrimRight(s) ==
    IF s # << >> /\ s[Len(s)] \in Whitespace
    THEN TrimRight(SubSeq(s, 1, Len(s) - 1))
    ELSE s

Trim(s) == TrimRight(TrimLeft(s))

\* =============================================================== FormManager

OriginalLabel == "Enviar"
BusyLabel == "Enviando..."
GenericError == "Erro ao enviar formulário. Tente novamente."
WhatsAppPhone == "558781326009"

NameValues == {<< >>, <<" ", "A">>, <<"A", "n", "a">>}
EmailValues == {<< >>, <<"a", "@", "b", ".", "c", "o">>}
PhoneValues == {<< >>,
                <<"(", "8", "1", ")", " ", "9", "8", "8", "8", "8", "-",
                  "7", "7", "7", "7">>}
GoalValues == {"", "emagrecer"}
MessageValues == {"", "oi"}

\* The controls after contactForm.reset(), and when the page loads.
DefaultFields == [name |-> << >>, email |-> << >>, phone |-> << >>,
                  goal |-> "", message |-> ""]

IdleButton == [text |-> OriginalLabel, disabled |-> FALSE, loading |-> FALSE]

NoPanel == [id |-> 0, kind |-> "none", errors |-> << >>]

\* A submit event: where its handler stands ("none" not yet fired, "rejected"
\* by validateForm, "waiting" in the simulated delay, "done" when submitForm
\* returned normally, "failed" when its catch block ran), the locals `data`
\* and `originalText` while submitForm is suspended, and the window.open
\* calls made for it.
NoSubmit == [pc |-> "none", data |-> DefaultFields, originalText |-> "",
             opens |-> << >>]

\* The name rule without trim().
NameOkUntrimmed(name) == Len(name) >= MinNameLength

\* validateForm's name rule: data.name && data.name.trim().length >= 2.
NameOk(name) == name # << >> /\ Len(Trim(name)) >= MinNameLength

\* validateForm: the list `errors`.
ValidationErrors(data) ==
       (IF ~NameOk(data.name) THEN <<"Nome deve ter pelo menos 2 caracteres">> ELSE << >>)
    \o (IF data.email = << >> \/ ~isValidEmail(data.email)
        THEN <<"Email inválido">> ELSE << >>)
    \o (IF data.phone = << >> \/ ~isValidPhone(data.phone)
        THEN <<"Telefone inválido">> ELSE << >>)
    \o (IF data.goal = "" THEN <<"Selecione seu objetivo">> ELSE << >>)

\* value.replace(/(\d{2})(\d{5})(\d{4})/, '($1) $2-$3') on a string of digits:
\* the pattern needs eleven digits and then matches the first eleven.
FormatLong(v) ==
    IF Len(v) >= 11
    THEN <<"(">> \o SubSeq(v, 1, 2) \o <<")", " ">> \o SubSeq(v, 3, 7)
         \o <<"-">> \o SubSeq(v, 8, 11) \o SubSeq(v, 12, Len(v))
    ELSE v

\* value.replace(/(\d{2})(\d+)/, '($1) $2') on a string of digits.
FormatShort(v) ==
    IF Len(v) >= 3
    THEN <<"(">> \o SubSeq(v, 1, 2) \o <<")", " ">> \o SubSeq(v, 3, Len(v))
    ELSE v

\* The phone control's input listener: the value it writes back.
FormatPhone(raw) ==
    LET digits == StripNonDigits(raw)
        value == IF Len(digits) > MaxPhoneDigits
                 THEN SubSeq(digits, 1, MaxPhoneDigits) ELSE digits
    IN  IF Len(value) > LongFormatAbove THEN FormatLong(value)
        ELSE IF Len(value) > ShortFormatAbove THEN FormatShort(value)
        ELSE value

\* The data redirectToWhatsApp would read if it took the controls' current
\* values instead of the object built at submit time.
RedirectDataLive(s) == fields

\* The `data` object submitForm passes to redirectToWhatsApp.
RedirectData(s) == sub[s].data

\* redirectToWhatsApp: the window.open call, as the target number and the
\* values interpolated into the message template.
WhatsAppCall(data) ==
    [phone |-> WhatsAppPhone,
     lines |-> <<data.name, data.email, data.phone, data.goal>>,
     extra |-> IF data.message # "" THEN <<data.message>> ELSE << >>]

\* The statements of submitForm's try block, in order, and the ones that
\* have completed when the statement `fail` throws.
TrySteps == <<"send", "open", "success", "reset">>
FailPoints == {"none", "send", "open", "success", "reset"}

Completed(fail) ==
    IF fail = "none" THEN TrySteps
    ELSE SubSeq(TrySteps, 1, (CHOOSE i \in 1..Len(TrySteps) : TrySteps[i] = fail) - 1)

Did(fail, step) == \E i \in 1..Len(Completed(fail)) : Completed(fail)[i] = step

\* A submit button restored only when the try block ran to its end.
ButtonAfterNoFinally(s, fail) ==
    IF fail = "none"
    THEN [text |-> sub[s].originalText, disabled |-> FALSE, loading |-> FALSE]
    ELSE button

\* submitForm's finally block.
ButtonAfter(s, fail) ==
    [text |-> sub[s].originalText, disabled |-> FALSE, loading |-> FALSE]

notForm == <<carouselVars, faqVars, revealVars, emailVars, menuVars, bootVars,
    navVars, timingVars>>

panelVars == <<errorPanel, errorTimers, successPanels, successTimers>>

\* The state after `new FormManager()` on a page with the contact form.
FormInit ==
    /\ fields = DefaultFields
    /\ button = IdleButton
    /\ sub = [s \in 1..MaxSubmits |-> NoSubmit]
    /\ submitted = 0
    /\ errorPanel = NoPanel
    /\ errorTimers = {}
    /\ successPanels = {}
    /\ successTimers = {}
    /\ phoneTyped = << >>

\* The controls handleFormValidation registers its listeners on.
Controls == {"name", "email", "phone", "goal", "message"}

\* field.type of each control.
ControlType(f) ==
    CASE f = "email" -> "email"
      [] f = "phone" -> "tel"
      [] f = "goal" -> "select-one"
      [] f = "message" -> "textarea"
      [] OTHER -> "text"

\* field.value.trim(); the select's and the textarea's values carry no
\* whitespace in this model.
TrimmedValue(f, v) == IF f \in {"goal", "message"} THEN v ELSE Trim(v)

IsEmpty(f, v) == IF f \in {"goal", "message"} THEN v = "" ELSE v = << >>

\* validateField: isValid for the control f holding v.
FieldValid(f, v) ==
    LET value == TrimmedValue(f, v)
    IN  IF ControlType(f) = "email" THEN isValidEmail(value)
        ELSE IF ControlType(f) = "tel" THEN isValidPhone(value)
        ELSE ~(f \in required /\ IsEmpty(f, value))

\* clearFieldError: the class goes and the first .field-error span beside the
\* control is removed.
SpansAfterClear(f) == IF fieldErrors[f] > 0 THEN fieldErrors[f] - 1 ELSE 0

clearFieldError(f) ==
    /\ errorClass' = errorClass \ {f}
    /\ fieldErrors' = [fieldErrors EXCEPT ![f] = SpansAfterClear(f)]

\* showFieldError: clearFieldError, then the class and a new span.
showFieldError(f) ==
    /\ errorClass' = errorClass \cup {f}
    /\ fieldErrors' = [fieldErrors EXCEPT ![f] = SpansAfterClear(f) + 1]

\* The input listener of handleFormValidation on the control f.
InputClears(f) ==
    /\ clearFieldError(f)
    /\ lastBlur' = "none"
    /\ UNCHANGED required

\* The user edits a control other than the phone.
NameInput ==
    /\ \E v \in NameValues : v # fields.name /\ fields' = [fields EXCEPT !.name = v]
    /\ InputClears("name")
    /\ UNCHANGED <<button, sub, submitted, panelVars, phoneTyped, notForm>>

EmailInput ==
    /\ \E v \in EmailValues : v # fields.email /\ fields' = [fields EXCEPT !.email = v]
    /\ InputClears("email")
    /\ UNCHANGED <<button, sub, submitted, panelVars, phoneTyped, notForm>>

GoalInput ==
    /\ \E v \in GoalValues : v # fields.goal /\ fields' = [fields EXCEPT !.goal = v]
    /\ InputClears("goal")
    /\ UNCHANGED <<button, sub, submitted, panelVars, phoneTyped, notForm>>

MessageInput ==
    /\ \E v \in MessageValues :
         v # fields.message /\ fields' = [fields EXCEPT !.message = v]
    /\ InputClears("message")
    /\ UNCHANGED <<button, sub, submitted, panelVars, phoneTyped, notForm>>

\* An input event on the phone control that found the value raw.
phoneInput(raw) ==
    /\ phoneTyped' = raw
    /\ fields' = [fields EXCEPT !.phone = FormatPhone(raw)]
    /\ InputClears("phone")
    /\ UNCHANGED <<button, sub, submitted, panelVars, notForm>>

\* The user replaces the phone control's content.
PhoneInput ==
    \E raw \in PhoneValues : raw # fields.phone /\ phoneInput(raw)

\* The submit listener up to its first await: validateForm, and for valid
\* data submitForm until simulateFormSubmission's timer is set.
SubmitEvent ==
    /\ submitted < MaxSubmits
    /\ submitted' = submitted + 1
    /\ LET s == submitted + 1
           data == fields
           errors == ValidationErrors(data)
       IN  IF errors # << >>
           THEN /\ errorPanel' = [id |-> s, kind |-> "validation", errors |-> errors]
                /\ errorTimers' = errorTimers \cup {s}
                /\ sub' = [sub EXCEPT ![s] = [NoSubmit EXCEPT !.pc = "rejected"]]
                /\ UNCHANGED button
           ELSE /\ button' = [text |-> BusyLabel, disabled |-> TRUE, loading |-> TRUE]
                /\ sub' = [sub EXCEPT ![s] = [pc |-> "waiting", data |-> data,
                                              originalText |-> button.text,
                                              opens |-> << >>]]
                /\ UNCHANGED <<errorPanel, errorTimers>>
    /\ UNCHANGED <<fields, successPanels, successTimers, phoneTyped, fieldVars, notForm>>

\* The rest of submitForm, run when the simulated delay has elapsed; `fail`
\* is the statement of the try block that throws, if any.
DelayElapsed ==
    /\ \E s \in 1..MaxSubmits, fail \in FailPoints :
        /\ sub[s].pc = "waiting"
        /\ successPanels' = IF Did(fail, "success") THEN successPanels \cup {s}
                            ELSE successPanels
        /\ successTimers' = IF Did(fail, "success") THEN successTimers \cup {s}
                            ELSE successTimers
        /\ fields' = IF Did(fail, "reset") THEN DefaultFields ELSE fields
        /\ errorPanel' = IF fail # "none"
                         THEN [id |-> s, kind |-> "generic", errors |-> <<GenericError>>]
                         ELSE errorPanel
        /\ errorTimers' = IF fail # "none" THEN errorTimers \cup {s} ELSE errorTimers
        /\ button' = ButtonAfter(s, fail)
        /\ sub' = [sub EXCEPT ![s] =
                     [pc |-> IF fail = "none" THEN "done" ELSE "failed",
                      data |-> DefaultFields,
                      originalText |-> "",
                      opens |-> IF Did(fail, "open")
                                THEN Append(@.opens, WhatsAppCall(RedirectData(s)))
                                ELSE @.opens]]
    /\ UNCHANGED <<submitted, phoneTyped, fieldVars, notForm>>

\* A removal timer taking away whichever container the form shows.
PanelAfterTimerAnyContainer(panel, c) == NoPanel

\* errorContainer.remove() in the timer of container c: it removes the
\* container it was created for, which createErrorContainer may have replaced
\* by a newer one in the meantime.
PanelAfterTimer(panel, c) == IF panel.id = c THEN NoPanel ELSE panel

\* The 5000 ms timer of showErrors / showError: errorContainer.remove().
ErrorTimerFires ==
    /\ \E c \in errorTimers :
        /\ errorTimers' = errorTimers \ {c}
        /\ errorPanel' = PanelAfterTimer(errorPanel, c)
    /\ UNCHANGED <<fields, button, sub, submitted, successPanels,
                   successTimers, phoneTyped, fieldVars, notForm>>

\* The 5000 ms timer of showSuccess: successContainer.remove().
SuccessTimerFires ==
    /\ \E c \in successTimers :
        /\ successTimers' = successTimers \ {c}
        /\ successPanels' = successPanels \ {c}
    /\ UNCHANGED <<fields, button, sub, submitted, errorPanel,
                   errorTimers, phoneTyped, fieldVars, notForm>>

FormNext ==
    \/ NameInput
    \/ EmailInput
    \/ GoalInput
    \/ MessageInput
    \/ PhoneInput
    \/ SubmitEvent
    \/ DelayElapsed
    \/ ErrorTimerFires
    \/ SuccessTimerFires

\* No contact form on the page.
FormIdle ==
    /\ fields = DefaultFields
    /\ button = IdleButton
    /\ sub = << >>
    /\ submitted = 0
    /\ errorPanel = NoPanel
    /\ errorTimers = {}
    /\ successPanels = {}
    /\ successTimers = {}
    /\ phoneTyped = << >>

\* ------------------------------------------------- typing into the phone control

PhoneKeys == {"8", "1", "a"}

\* Contents pasted into the phone control.
PhoneSamples ==
    {<<"8", "1", "9", "8", "8", "8", "8", "7", "7", "7", "7">>,
     <<"8", "1", "9", "8", "8", "8", "8">>,
     <<"8", "1">>,
     <<"8", "1", " ", "9", "8", "8", "8", "8", "-", "7", "7", "7", "7", "5">>}

\* A key appends a character to the control's value.
PhoneType ==
    \E c \in PhoneKeys : phoneInput(fields.phone \o <<c>>)

\* Backspace removes the last character.
PhoneBackspace ==
    /\ fields.phone # << >>
    /\ phoneInput(SubSeq(fields.phone, 1, Len(fields.phone) - 1))

PhonePaste ==
    \E raw \in PhoneSamples : phoneInput(raw)

PhoneNext ==
    \/ PhoneType
    \/ PhoneBackspace
    \/ PhonePaste

\* ------------------------------------------------- inline field validation

\* The blur listener of handleFormValidation: validateField.
FieldBlur ==
    /\ \E f \in Controls :
        /\ IF FieldValid(f, fields[f]) THEN clearFieldError(f) ELSE showFieldError(f)
        /\ lastBlur' = f
    /\ UNCHANGED <<required, formVars, notForm>>

FieldNext ==
    \/ NameInput
    \/ EmailInput
    \/ GoalInput
    \/ MessageInput
    \/ PhoneInput
    \/ FieldBlur

\* No inline error yet; which controls are required is the markup's choice.
FieldInit ==
    /\ required \in SUBSET {"name", "goal", "message"}
    /\ fieldErrors = [f \in Controls |-> 0]
    /\ errorClass = {}
    /\ lastBlur = "none"

\* The markup with its four documented controls required and no blur yet.
FieldIdle ==
    /\ required = {"name", "goal"}
    /\ fieldErrors = [f \in Controls |-> 0]
    /\ errorClass = {}
    /\ lastBlur = "none"

\* ======================================================== Utils.isValidEmail

EmailAlphabet == {"a", "@", ".", " "}

\* All strings over the alphabet of length at most n.
RECURSIVE StringsUpTo(_)
StringsUpTo(n) ==
    IF n = 0 THEN {<< >>}
    ELSE LET shorter == StringsUpTo(n - 1) IN
         shorter \cup {Append(s, c) : s \in {t \in shorter : Len(t) = n - 1},
                                      c \in EmailAlphabet}

\* The addresses the documentation names.
EmailExamples == {<<"a", "@", "b", ".", "c", "o">>, <<"a", "@", "b">>,
                  <<"a", ".", "b", "@", "c">>}

EmailInit ==
    /\ emailInput \in StringsUpTo(MaxEmailLen) \cup EmailExamples
    /\ emailVerdict = "unchecked"

\* A call isValidEmail(emailInput).
CheckEmail ==
    /\ emailVerdict = "unchecked"
    /\ emailVerdict' = IF isValidEmail(emailInput) THEN "valid" ELSE "invalid"
    /\ UNCHANGED <<emailInput, carouselVars, faqVars, revealVars, formVars, menuVars,
                   bootVars, navVars, timingVars, fieldVars>>

EmailNext == CheckEmail

EmailIdle ==
    /\ emailInput = << >>
    /\ emailVerdict = "unchecked"

\* ================================================== the mobile menu
\* NavigationManager.handleMobileMenu / handleResize and
\* AccessibilityManager.handleKeyboardNavigation / handleFocusManagement /
\* handleARIA, on a page that has #nav-toggle and #nav-menu.

OpenLabel == "Abrir menu de navegação"
CloseLabel == "Fechar menu de navegação"

\* Window widths on both sides of the breakpoint handleResize compares with.
Widths == {TabletBreakpoint, TabletBreakpoint + 1}

\* Where the focus can be: on the toggle, on the k-th focusable element of the
\* menu (1 .. numFocusable), or elsewhere in the page.
OnToggle == 0
Elsewhere == -1
InMenu(pos) == pos \in 1..numFocusable
FocusPositions == {Elsewhere, OnToggle} \cup (1..numFocusable)

\* handleResize's condition.
ResizeCloses(width) == width > TabletBreakpoint

\* The observer's callback leaving aria-expanded as handleARIA set it.
AriaExpandedStale(isActive) == "false"

\* The observer's callback: isActive.toString().
AriaExpandedFor(isActive) == IF isActive THEN "true" ELSE "false"

\* The observer's callback: the aria-label for the menu's state.
AriaLabelFor(isActive) == IF isActive THEN CloseLabel ELSE OpenLabel

\* Tab and Shift+Tab moving by the document's order only.
TabTargetNoWrap(pos, shift, n) == IF shift THEN pos - 1 ELSE pos + 1

\* The focus after Tab / Shift+Tab pressed on the pos-th of the menu's n
\* focusable elements: the keydown listener of the menu moves it from the last
\* to the first and from the first to the last and cancels the default; the
\* browser's default moves it to the neighbour.
TabTarget(pos, shift, n) ==
    IF shift
    THEN IF pos = 1 THEN n ELSE pos - 1
    ELSE IF pos = n THEN 1 ELSE pos + 1

\* classList.remove('active') on both elements (the menu's class attribute is
\* written, which queues a mutation record).
RemoveActive ==
    /\ navMenuActive' = FALSE
    /\ navToggleActive' = FALSE
    /\ mutationPending' = TRUE

\* The three statements of the link, outside-click and resize handlers.
CloseMenu ==
    /\ RemoveActive
    /\ bodyOverflow' = ""

\* The click listener of #nav-toggle.
ToggleMenu ==
    /\ navMenuActive' = ~navMenuActive
    /\ navToggleActive' = ~navToggleActive
    /\ bodyOverflow' = IF navMenuActive' THEN "hidden" ELSE ""
    /\ mutationPending' = TRUE

\* The pieces of DOM state the menu's handlers write.
MenuState == {"active class", "body overflow", "toggle aria"}

\* The history after a listener of controller ctrl has written `pieces`.
Wrote(ctrl, pieces) ==
    [p \in MenuState |-> IF p \in pieces THEN writers[p] \cup {ctrl} ELSE writers[p]]

ariaVars == <<ariaExpanded, ariaLabel>>
classVars == <<navMenuActive, navToggleActive, mutationPending>>
resizeVars == <<innerWidth, resizeTimeout>>

\* The state after `new NavigationManager()` and `new AccessibilityManager()`:
\* the menu is closed and handleARIA has set the toggle's attributes.
MenuInit ==
    /\ navMenuActive = FALSE
    /\ navToggleActive = FALSE
    /\ bodyOverflow = ""
    /\ ariaExpanded = "false"
    /\ ariaLabel = OpenLabel
    /\ mutationPending = FALSE
    /\ numFocusable \in 0..MaxFocusable
    /\ activeElement = Elsewhere
    /\ innerWidth \in Widths
    /\ resizeTimeout = FALSE
    /\ menuEvent = "none"
    /\ writers = [p \in MenuState |->
                    IF p = "toggle aria" THEN {"AccessibilityManager"} ELSE {}]

notMenu == <<carouselVars, faqVars, revealVars, formVars, emailVars, bootVars,
    navVars, timingVars, fieldVars>>

\* Event handlers are tasks: the observer's callback, a microtask, has run
\* before the next one starts.
TaskMayRun == ~mutationPending

\* A click on #nav-toggle: its own listener toggles; the document's listener
\* finds the target inside the toggle and does nothing.
ToggleClick ==
    /\ TaskMayRun
    /\ ToggleMenu
    /\ menuEvent' = "toggle"
    /\ writers' = Wrote("NavigationManager", {"active class", "body overflow"})
    /\ UNCHANGED <<ariaVars, numFocusable, activeElement, resizeVars, notMenu>>

\* A click on a .nav-link: the link's listener closes the menu; the
\* document's listener closes it again when the link is outside the menu.
NavLinkClick ==
    /\ TaskMayRun
    /\ CloseMenu
    /\ menuEvent' = "link"
    /\ writers' = Wrote("NavigationManager", {"active class", "body overflow"})
    /\ UNCHANGED <<ariaVars, numFocusable, activeElement, resizeVars, notMenu>>

\* A click outside both the menu and the toggle.
OutsideClick ==
    /\ TaskMayRun
    /\ CloseMenu
    /\ menuEvent' = "outside"
    /\ writers' = Wrote("NavigationManager", {"active class", "body overflow"})
    /\ UNCHANGED <<ariaVars, numFocusable, activeElement, resizeVars, notMenu>>

\* A click inside the menu, not on a link: the document's listener finds the
\* target inside the menu.
InsideClick ==
    /\ TaskMayRun
    /\ menuEvent' = "inside"
    /\ writers' = writers
    /\ UNCHANGED <<classVars, bodyOverflow, ariaVars, numFocusable, activeElement,
                   resizeVars, notMenu>>

\* A resize event: the debounced listener (re)starts its 250 ms timer.
ResizeEvent ==
    /\ TaskMayRun
    /\ \E w \in Widths : innerWidth' = w
    /\ resizeTimeout' = TRUE
    /\ menuEvent' = "resizing"
    /\ writers' = writers
    /\ UNCHANGED <<classVars, bodyOverflow, ariaVars, numFocusable, activeElement,
                   notMenu>>

\* The debounce timer fires: handleResize.
ResizeTimeout ==
    /\ TaskMayRun
    /\ resizeTimeout
    /\ resizeTimeout' = FALSE
    /\ IF ResizeCloses(innerWidth) THEN CloseMenu
       ELSE UNCHANGED <<classVars, bodyOverflow>>
    /\ menuEvent' = "resize"
    /\ writers' = IF ResizeCloses(innerWidth)
                   THEN Wrote("NavigationManager", {"active class", "body overflow"})
                   ELSE writers
    /\ UNCHANGED <<ariaVars, numFocusable, activeElement, innerWidth, notMenu>>

\* Escape: the document's keydown listener of handleKeyboardNavigation.
EscapeKey ==
    /\ TaskMayRun
    /\ IF navMenuActive
       THEN /\ RemoveActive
            /\ activeElement' = OnToggle
       ELSE UNCHANGED <<classVars, activeElement>>
    /\ menuEvent' = "Escape"
    /\ writers' = IF navMenuActive THEN Wrote("AccessibilityManager", {"active class"})
                   ELSE writers
    /\ UNCHANGED <<bodyOverflow, ariaVars, numFocusable, resizeVars, notMenu>>

\* Enter or space with the focus on the toggle: navToggle.click().
ToggleKey ==
    /\ TaskMayRun
    /\ activeElement = OnToggle
    /\ \E key \in {"Enter", " "} : menuEvent' = key
    /\ ToggleMenu
    /\ writers' = Wrote("NavigationManager", {"active class", "body overflow"})
    /\ UNCHANGED <<ariaVars, numFocusable, activeElement, resizeVars, notMenu>>

\* Tab or Shift+Tab.  Inside the menu the menu's keydown listener and the
\* browser's default decide; outside it the browser moves the focus to
\* another place outside or into the menu at the end it is entered from.
TabKey ==
    /\ TaskMayRun
    /\ \E shift \in BOOLEAN :
        /\ IF InMenu(activeElement)
           THEN /\ activeElement' = TabTarget(activeElement, shift, numFocusable)
                /\ menuEvent' = IF shift THEN "ShiftTab" ELSE "Tab"
           ELSE /\ menuEvent' = IF shift THEN "ShiftTabOutside" ELSE "TabOutside"
                /\ \E to \in {Elsewhere, OnToggle}
                             \cup (IF numFocusable = 0 THEN {}
                                   ELSE {IF shift THEN numFocusable ELSE 1}) :
                       activeElement' = to
    /\ UNCHANGED <<classVars, bodyOverflow, ariaVars, numFocusable, resizeVars,
                   writers, notMenu>>

\* The user puts the focus somewhere with the pointer.
FocusChange ==
    /\ TaskMayRun
    /\ \E to \in FocusPositions : to # activeElement /\ activeElement' = to
    /\ menuEvent' = "focus"
    /\ writers' = writers
    /\ UNCHANGED <<classVars, bodyOverflow, ariaVars, numFocusable, resizeVars,
                   notMenu>>

\* The MutationObserver's callback for the records queued on #nav-menu.
MutationCallback ==
    /\ mutationPending
    /\ mutationPending' = FALSE
    /\ ariaExpanded' = AriaExpandedFor(navMenuActive)
    /\ ariaLabel' = AriaLabelFor(navMenuActive)
    /\ menuEvent' = "callback"
    /\ writers' = Wrote("AccessibilityManager", {"toggle aria"})
    /\ UNCHANGED <<navMenuActive, navToggleActive, bodyOverflow, numFocusable,
                   activeElement, resizeVars, notMenu>>

MenuNext ==
    \/ ToggleClick
    \/ NavLinkClick
    \/ OutsideClick
    \/ InsideClick
    \/ ResizeEvent
    \/ ResizeTimeout
    \/ EscapeKey
    \/ ToggleKey
    \/ TabKey
    \/ FocusChange
    \/ MutationCallback

\* The menu untouched, for the specifications of the other controllers.
MenuIdle ==
    /\ navMenuActive = FALSE
    /\ navToggleActive = FALSE
    /\ bodyOverflow = ""
    /\ ariaExpanded = "false"
    /\ ariaLabel = OpenLabel
    /\ mutationPending = FALSE
    /\ numFocusable = 0
    /\ activeElement = Elsewhere
    /\ innerWidth = TabletBreakpoint
    /\ resizeTimeout = FALSE
    /\ menuEvent = "none"
    /\ writers = [p \in MenuState |->
                    IF p = "toggle aria" THEN {"AccessibilityManager"} ELSE {}]

\* ============================================================ the bootstrap
\* The two top-level statements of script.js, `new App()` and
\* `new NewSectionsManager()`, and the constructors they run.

\* The elements whose absence a constructor can meet.  faqQuestions: every
\* .faq-item has a .faq-question; track: the carousel has a .carousel-track.
DomElements == {"header", "navToggle", "navMenu", "contactForm", "carousel",
                "track", "faqQuestions"}

\* App.initializeManagers, in its order.
AppControllers == <<"NavigationManager", "AnimationManager", "FormManager",
                    "PerformanceManager", "AccessibilityManager">>

\* NewSectionsManager.initializeComponents, in its order.
SectionControllers == <<"FAQManager", "TransformationsCarousel",
                        "TestimonialsAnimations">>

\* Whether `new ctrl()` throws a TypeError on the page d, from a property
\* access on null: NavigationManager reads this.header.style in handleScroll
\* and calls this.navToggle.addEventListener; AccessibilityManager calls
\* navToggle.addEventListener and navMenu.querySelectorAll; FAQManager calls
\* question.addEventListener; TransformationsCarousel, when the carousel
\* exists, reads this.track.style in updateCarousel.  FormManager and the
\* carousel without their element skip init and return.
Throws(ctrl, d) ==
    CASE ctrl = "NavigationManager" -> ~d.header \/ ~d.navToggle
      [] ctrl = "AccessibilityManager" -> ~d.navToggle \/ ~d.navMenu
      [] ctrl = "FAQManager" -> ~d.faqQuestions
      [] ctrl = "TransformationsCarousel" -> d.carousel /\ ~d.track
      [] OTHER -> FALSE

\* The constructors of `list` that return when a function runs them in
\* order: an exception leaves the function at the first that throws.
Returned(list, d) ==
    {list[i] : i \in {j \in 1..Len(list) : \A k \in 1..j : ~Throws(list[k], d)}}

\* Whether the function running `list` throws.
Aborts(list, d) == \E i \in 1..Len(list) : Throws(list[i], d)

ControllersOf(stmt) == IF stmt = "App" THEN AppControllers ELSE SectionControllers

\* `new App()` / `new NewSectionsManager()`: init() registers a
\* DOMContentLoaded listener while the document is loading and runs the
\* constructors at once otherwise; an exception then ends the script.
TopLevel(stmt, after) ==
    /\ scriptPc = stmt
    /\ IF readyState = "loading"
       THEN /\ domListeners' = Append(domListeners, stmt)
            /\ scriptPc' = after
            /\ UNCHANGED constructed
       ELSE /\ constructed' = constructed \cup Returned(ControllersOf(stmt), dom)
            /\ scriptPc' = IF Aborts(ControllersOf(stmt), dom) THEN "aborted" ELSE after
            /\ UNCHANGED domListeners
    /\ UNCHANGED <<dom, readyState>>

notBoot == <<carouselVars, faqVars, revealVars, formVars, emailVars, menuVars,
    navVars, timingVars, fieldVars>>

\* The script starts on some page, while the document is loading or later.
BootInit ==
    /\ dom \in [DomElements -> BOOLEAN]
    /\ readyState \in {"loading", "interactive"}
    /\ scriptPc = "App"
    /\ domListeners = << >>
    /\ constructed = {}

\* Line 754.
NewApp ==
    /\ TopLevel("App", "Sections")
    /\ UNCHANGED notBoot

\* Line 1095.
NewSections ==
    /\ TopLevel("Sections", "end")
    /\ UNCHANGED notBoot

\* The document has been parsed: DOMContentLoaded is dispatched.
DomContentLoaded ==
    /\ readyState = "loading"
    /\ scriptPc \in {"end", "aborted"}
    /\ readyState' = "interactive"
    /\ UNCHANGED <<dom, scriptPc, domListeners, constructed, notBoot>>

\* The next DOMContentLoaded listener runs; what it throws is reported and
\* does not reach the listeners after it.
DomListenerRuns ==
    /\ readyState # "loading"
    /\ domListeners # << >>
    /\ constructed' = constructed \cup Returned(ControllersOf(Head(domListeners)), dom)
    /\ domListeners' = Tail(domListeners)
    /\ UNCHANGED <<dom, readyState, scriptPc, notBoot>>

BootNext ==
    \/ NewApp
    \/ NewSections
    \/ DomContentLoaded
    \/ DomListenerRuns

\* The bootstrap over on a complete page, for the specifications of the
\* controllers.
BootIdle ==
    /\ dom = [e \in DomElements |-> TRUE]
    /\ readyState = "interactive"
    /\ scriptPc = "end"
    /\ domListeners = << >>
    /\ constructed = {AppControllers[i] : i \in 1..Len(AppControllers)}
                        \cup {SectionControllers[i] : i \in 1..Len(SectionControllers)}

\* ===================================== NavigationManager: the scroll handler

\* CONFIG.SCROLL_OFFSET.
ScrollOffset == 100

\* The scroll position above which handleScroll makes the header opaque.
HeaderThreshold == 50

NumSections == 2
GridStep == 50
MaxScrollSteps == 5
MaxSectionSteps == 2

SectionSet == 1..NumSections

ScrollPositions == {k * GridStep : k \in 0..MaxScrollSteps}

\* Page layouts: the section[id] elements in document order, one after the
\* other, possibly with other content between them.
Layouts ==
    {l \in [top : [SectionSet -> {k * GridStep : k \in 0..(MaxScrollSteps + 2)}],
            height : [SectionSet -> {k * GridStep : k \in 1..MaxSectionSteps}]] :
        \A i \in SectionSet :
            i + 1 \in SectionSet => l.top[i + 1] >= l.top[i] + l.height[i]}

\* The condition of updateActiveLink on one section.
SectionContains(i, y) ==
    y >= sectionTop[i] /\ y < sectionTop[i] + sectionHeight[i]

\* updateActiveLink: sections.forEach from section i on; a section holding the
\* position removes 'active' from every link and adds it to its own.
RECURSIVE ActiveAfter(_, _, _)
ActiveAfter(active, i, y) ==
    IF i > NumSections THEN active
    ELSE ActiveAfter(IF SectionContains(i, y) THEN {i} ELSE active, i + 1, y)

updateActiveLink(active, y) == ActiveAfter(active, 1, y + ScrollOffset)

\* The state the constructor's handleScroll leaves; the markup marks no link.
NavInit ==
    /\ \E l \in Layouts : sectionTop = l.top /\ sectionHeight = l.height
    /\ scrollY = 0
    /\ headerSolid = FALSE
    /\ activeLinks = updateActiveLink({}, 0)
    /\ scrollHandled = TRUE

NavIdle ==
    /\ sectionTop = [i \in SectionSet |-> (i - 1) * MaxSectionSteps * GridStep]
    /\ sectionHeight = [i \in SectionSet |-> MaxSectionSteps * GridStep]
    /\ scrollY = 0
    /\ headerSolid = FALSE
    /\ activeLinks = updateActiveLink({}, 0)
    /\ scrollHandled = TRUE

notNav == <<carouselVars, faqVars, revealVars, formVars, emailVars, menuVars,
            bootVars, timingVars, fieldVars>>

\* handleScroll.
handleScroll ==
    /\ headerSolid' = (scrollY' > HeaderThreshold)
    /\ activeLinks' = updateActiveLink(activeLinks, scrollY')
    /\ scrollHandled' = TRUE

\* The page scrolls and the throttled listener lets the event through.
ScrollHandled ==
    /\ \E y \in ScrollPositions : y # scrollY /\ scrollY' = y
    /\ handleScroll
    /\ UNCHANGED <<sectionTop, sectionHeight, notNav>>

\* The page scrolls inside the throttle's window: the event is dropped.
ScrollDiscarded ==
    /\ \E y \in ScrollPositions : y # scrollY /\ scrollY' = y
    /\ scrollHandled' = FALSE
    /\ UNCHANGED <<sectionTop, sectionHeight, headerSolid, activeLinks, notNav>>

NavNext ==
    \/ ScrollHandled
    \/ ScrollDiscarded

\* ============================================== Utils.throttle, Utils.debounce

MaxTime == 5
MaxTriggers == 3
Limit == 2
Wait == 2
MaxArg == 2

\* No timer is pending.
NoTimer == {}

notTiming == <<carouselVars, faqVars, revealVars, formVars, emailVars, menuVars,
               bootVars, navVars, fieldVars>>

TimingIdle ==
    /\ now = 0
    /\ inThrottle = FALSE
    /\ throttleTimer = NoTimer
    /\ throttleLog = << >>
    /\ timeout = NoTimer
    /\ debounceLog = << >>

Triggers(log) == {i \in 1..Len(log) : log[i].kind = "trigger"}

Calls(log) == {i \in 1..Len(log) : log[i].kind = "call"}

\* Time passes; setTimeout gives a minimum delay, so the clock may move past
\* the due time of a pending timer before its callback runs.
Tick ==
    /\ now < MaxTime
    /\ now' = now + 1
    /\ UNCHANGED <<inThrottle, throttleTimer, throttleLog, timeout, debounceLog,
                   notTiming>>

\* The condition under which the throttled function runs func.
ThrottleAdmits(inThr) == ~inThr

\* The function throttle returns is called.
ThrottleTrigger ==
    /\ Cardinality(Triggers(throttleLog)) < MaxTriggers
    /\ IF ThrottleAdmits(inThrottle)
       THEN /\ throttleLog' = throttleLog \o <<[kind |-> "trigger", at |-> now],
                                               [kind |-> "call", at |-> now]>>
            /\ inThrottle' = TRUE
            /\ throttleTimer' = throttleTimer \cup {[at |-> now + Limit]}
       ELSE /\ throttleLog' = Append(throttleLog, [kind |-> "trigger", at |-> now])
            /\ UNCHANGED <<inThrottle, throttleTimer>>
    /\ UNCHANGED <<now, timeout, debounceLog, notTiming>>

\* The timer of the throttled function fires, at its due time or later.
ThrottleTimerFires ==
    /\ \E t \in throttleTimer :
        /\ now >= t.at
        /\ throttleTimer' = throttleTimer \ {t}
    /\ inThrottle' = FALSE
    /\ UNCHANGED <<now, throttleLog, timeout, debounceLog, notTiming>>

ThrottleNext ==
    \/ ThrottleTrigger
    \/ ThrottleTimerFires
    \/ Tick

\* The timer pending after executedFunction ran while old was pending.
RearmedNoClear(old, new) == old \cup {new}

Rearmed(old, new) == {new}

\* executedFunction: clearTimeout, then setTimeout(later, wait).
DebounceTrigger ==
    /\ Cardinality(Triggers(debounceLog)) < MaxTriggers
    /\ \E a \in 1..MaxArg :
        /\ timeout' = Rearmed(timeout, [at |-> now + Wait, arg |-> a])
        /\ debounceLog' = Append(debounceLog, [kind |-> "trigger", at |-> now, arg |-> a])
    /\ UNCHANGED <<now, inThrottle, throttleTimer, throttleLog, notTiming>>

\* later: func(...args) with the arguments of the call that set the timer;
\* the timer fires at its due time or later.
DebounceTimerFires ==
    /\ \E t \in timeout :
        /\ now >= t.at
        /\ debounceLog' = Append(debounceLog, [kind |-> "call", at |-> now, arg |-> t.arg])
        /\ timeout' = timeout \ {t}
    /\ UNCHANGED <<now, inThrottle, throttleTimer, throttleLog, notTiming>>

DebounceNext ==
    \/ DebounceTrigger
    \/ DebounceTimerFires
    \/ Tick

\* ============================================================ specifications

InitCarousel == CarouselInit /\ FaqIdle /\ RevealIdle /\ FormIdle /\ EmailIdle
    /\ MenuIdle /\ BootIdle
    /\ FieldIdle /\ NavIdle /\ TimingIdle
SpecCarousel == InitCarousel /\ [][CarouselNext]_vars

InitFaq == FaqInit /\ CarouselIdle /\ RevealIdle /\ FormIdle /\ EmailIdle
    /\ MenuIdle /\ BootIdle
    /\ FieldIdle /\ NavIdle /\ TimingIdle
SpecFaq == InitFaq /\ [][FaqNext]_vars

InitReveal == RevealInit /\ CarouselIdle /\ FaqIdle /\ FormIdle /\ EmailIdle
    /\ MenuIdle /\ BootIdle
    /\ FieldIdle /\ NavIdle /\ TimingIdle
SpecReveal == InitReveal /\ [][RevealNext]_vars

InitForm == FormInit /\ CarouselIdle /\ FaqIdle /\ RevealIdle /\ EmailIdle
    /\ MenuIdle /\ BootIdle
    /\ FieldIdle /\ NavIdle /\ TimingIdle
SpecForm == InitForm /\ [][FormNext]_vars

SpecPhone == InitForm /\ [][PhoneNext]_vars

InitEmail == EmailInit /\ CarouselIdle /\ FaqIdle /\ RevealIdle /\ FormIdle
    /\ MenuIdle /\ BootIdle
    /\ FieldIdle /\ NavIdle /\ TimingIdle
SpecEmail == InitEmail /\ [][EmailNext]_vars

InitMenu == MenuInit /\ CarouselIdle /\ FaqIdle /\ RevealIdle /\ FormIdle /\ EmailIdle
    /\ BootIdle
    /\ FieldIdle /\ NavIdle /\ TimingIdle
SpecMenu == InitMenu /\ [][MenuNext]_vars

\* The observer's callback is a microtask: it runs as soon as the handler that
\* queued the record has returned.
SpecMenuLive == SpecMenu /\ WF_vars(MutationCallback)

InitBoot == BootInit /\ CarouselIdle /\ FaqIdle /\ RevealIdle /\ FormIdle /\ EmailIdle
    /\ MenuIdle
    /\ FieldIdle /\ NavIdle /\ TimingIdle
SpecBoot == InitBoot /\ [][BootNext]_vars

InitField == FormInit /\ FieldInit /\ CarouselIdle /\ FaqIdle /\ RevealIdle
    /\ EmailIdle /\ MenuIdle /\ BootIdle /\ NavIdle /\ TimingIdle
SpecField == InitField /\ [][FieldNext]_vars

InitNav == NavInit /\ CarouselIdle /\ FaqIdle /\ RevealIdle /\ FormIdle
    /\ EmailIdle /\ MenuIdle /\ BootIdle /\ FieldIdle /\ TimingIdle
SpecNav == InitNav /\ [][NavNext]_vars

InitTiming == TimingIdle /\ CarouselIdle /\ FaqIdle /\ RevealIdle /\ FormIdle
    /\ EmailIdle /\ MenuIdle /\ BootIdle /\ FieldIdle /\ NavIdle
SpecThrottle == InitTiming /\ [][ThrottleNext]_vars
SpecDebounce == InitTiming /\ [][DebounceNext]_vars


\* ================================================================ properties

\* C1: on a carousel of N >= 1 slides, from a start index i in [0, N), n
\* consecutive nextSlide calls leave the index at (i + n) mod N and n
\* consecutive prevSlide calls leave it at (i - n) mod N.
C1_RunLaw ==
    (carousel /\ totalSlides >= 1 /\ run.start \in 0..(totalSlides - 1)) =>
        /\ run.kind = "next" => currentSlide = (run.start + run.len) % totalSlides
        /\ run.kind = "prev" => currentSlide = (run.start - run.len) % totalSlides

\* A run of nextSlide calls longer than the carousel, started at the last slide.
C1_Witness ==
    /\ carousel
    /\ totalSlides = 3
    /\ run.kind = "next"
    /\ run.start = 2
    /\ run.len > totalSlides

\* C2: in every reachable state of an initialized carousel,
\* 0 <= currentSlide < totalSlides, whatever the number of cards and
\* indicators found at construction.
C2_IndexInRange == carousel => (0 <= currentSlide /\ currentSlide < totalSlides)

\* C3: after initialization and after every transition exactly one card and
\* exactly one indicator are active, the ones at position currentSlide, and
\* the track offset is -currentSlide * 100%.
C3_ExactlyOneActive ==
    carousel =>
        /\ activeCards = {currentSlide}
        /\ activeIndicators = {currentSlide}
        /\ trackTranslateX = (-currentSlide) * TrackStep

\* C4: at most one FAQ item is open; a toggle of a closed item leaves that
\* item open and all others closed, a toggle of the open item leaves all
\* items closed.
C4_Accordion ==
    /\ Cardinality(faqActive) <= 1
    /\ faqLast.item # 0 =>
          faqActive = IF faqLast.wasActive THEN {} ELSE {faqLast.item}

\* Item 2 was opened by a key press while item 1 was open.
C4_Witness ==
    /\ faqLast = [item |-> 2, wasActive |-> FALSE, by |-> "Enter"]
    /\ faqActive = {2}
    /\ faqItems >= 3

\* C5: every element is revealed by each of its observers at most once, on
\* the first intersecting entry that observer delivers for it (after the
\* timer set in that callback, for TestimonialsAnimations); from that entry
\* on the observer no longer observes it, delivers no further entry for it,
\* and the element stays revealed.
C5_RevealOnce ==
    /\ \A o \in Owners : \A e \in Targets(o) :
        /\ revealCount[o][e] <= 1
        /\ Revealed(o, e) <=> revealCount[o][e] = 1
        /\ reported[o][e] = "in" <=> e \notin observed[o]
        /\ Revealed(o, e) <=>
              /\ reported[o][e] = "in"
              /\ \A t \in revealTimers : o = "TestimonialsAnimations" => t.target # e
    /\ \A t, u \in revealTimers :
        /\ className[t.target] = "testimonial-card"
        /\ reported["TestimonialsAnimations"][t.target] = "in"
        /\ t.target = u.target => t = u

\* A revealed service card and a testimonial card revealed by both of its
\* observers have left the viewport again, beside a tip card that was
\* reported outside the viewport and is still pending.
C5_Witness ==
    \E e, f, g \in RevealElems :
        /\ className[e] = "service-card"
        /\ Revealed("AnimationManager", e) /\ ~intersecting[e]
        /\ className[f] = "testimonial-card"
        /\ Revealed("TestimonialsAnimations", f) /\ Revealed("SectionsUtils", f)
        /\ ~intersecting[f]
        /\ className[g] = "tip-card"
        /\ ~Revealed("SectionsUtils", g) /\ reported["SectionsUtils"][g] = "out"
        /\ g \in observed["SectionsUtils"]

\* The data of the model's value sets that satisfies every validation rule
\* as documented: name of trimmed length >= 2, email A@B.C, phone
\* (DD) 9DDDD-DDDD, a goal selected.
DocumentedValid(f) ==
    /\ f.name = <<"A", "n", "a">>
    /\ f.email = <<"a", "@", "b", ".", "c", "o">>
    /\ f.phone = <<"(", "8", "1", ")", " ", "9", "8", "8", "8", "8", "-",
                   "7", "7", "7", "7">>
    /\ f.goal # ""

Submits == DOMAIN sub

\* C6: a submit event whose data violates a validation rule is rejected: the
\* submit button is left as it was, no simulated delay is started and no
\* window.open call is ever made for that submit.
C6_InvalidRejected ==
    /\ [](\A s \in Submits : sub[s].pc = "rejected" => sub[s].opens = << >>)
    /\ [][\A s \in Submits :
            /\ (sub[s].pc = "none" /\ sub'[s].pc # "none" /\ ~DocumentedValid(fields)) =>
                  /\ sub'[s].pc = "rejected"
                  /\ button' = button
                  /\ \A t \in Submits : sub'[t].opens = sub[t].opens
            /\ sub[s].pc = "rejected" => sub'[s] = sub[s]]_vars

\* A submit with the name " A" (trimmed length 1) and every other field
\* valid was rejected; the button is idle.
C6_Witness ==
    \E s \in Submits :
        /\ sub[s].pc = "rejected"
        /\ fields.name = <<" ", "A">>
        /\ errorPanel = [id |-> s, kind |-> "validation",
                         errors |-> <<"Nome deve ter pelo menos 2 caracteres">>]
        /\ button = IdleButton

\* C7: a submit with valid data makes the button busy; no deep link is opened
\* for it before its simulated delay has elapsed; when submitForm then runs
\* to its end exactly one deep link has been opened, carrying the name,
\* email, phone and goal the form held at submit time, the success panel is
\* shown, the form is reset and the button is enabled with the label it had
\* at submit time (the original label when this is the only submission).
C7_ValidSubmission ==
    /\ [](\A s \in Submits :
            /\ sub[s].pc = "waiting" => sub[s].opens = << >>
            /\ sub[s].pc = "done" => Len(sub[s].opens) = 1
            /\ (sub[s].pc = "done"
                 /\ \A t \in Submits \ {s} : sub[t].pc \in {"none", "rejected"})
                => button = IdleButton)
    /\ [][\A s \in Submits :
            /\ (sub[s].pc = "none" /\ sub'[s].pc = "waiting") =>
                  /\ button' = [text |-> BusyLabel, disabled |-> TRUE, loading |-> TRUE]
                  /\ sub'[s].data = fields
                  /\ sub'[s].originalText = button.text
            /\ (sub[s].pc = "waiting" /\ sub'[s].pc = "waiting") =>
                  /\ sub'[s].data = sub[s].data
                  /\ sub'[s].originalText = sub[s].originalText
            /\ (sub[s].pc = "waiting" /\ sub'[s].pc = "done") =>
                  /\ Len(sub'[s].opens) = 1
                  /\ sub'[s].opens[1].lines = <<sub[s].data.name, sub[s].data.email,
                                                sub[s].data.phone, sub[s].data.goal>>
                  /\ s \in successPanels'
                  /\ fields' = DefaultFields
                  /\ button' = [text |-> sub[s].originalText, disabled |-> FALSE,
                                loading |-> FALSE]
            /\ sub[s].pc = "done" => sub'[s] = sub[s]]_vars

\* A single valid submission has completed: its deep link carries the
\* submitted name although the form is reset, the success panel is up and
\* the button is back to its original state.
C7_Witness ==
    \E s \in Submits :
        /\ sub[s].pc = "done"
        /\ \A t \in Submits \ {s} : sub[t].pc = "none"
        /\ Len(sub[s].opens) = 1
        /\ sub[s].opens[1].lines[1] = <<"A", "n", "a">>
        /\ sub[s].opens[1].extra = <<"oi">>
        /\ s \in successPanels
        /\ fields = DefaultFields
        /\ button = IdleButton

\* C8: when a statement of submitForm's try block throws, the catch block
\* shows the one generic error message and the button is restored; on every
\* exit of submitForm the button is enabled, without class 'loading', with
\* the label saved at entry.
C8_CleanupOnThrow ==
    [][\A s \in Submits :
         /\ (sub[s].pc = "waiting" /\ sub'[s].pc = "failed") =>
               errorPanel' = [id |-> s, kind |-> "generic", errors |-> <<GenericError>>]
         /\ (sub[s].pc = "waiting" /\ sub'[s].pc \in {"done", "failed"}) =>
               button' = [text |-> sub[s].originalText, disabled |-> FALSE,
                          loading |-> FALSE]]_vars

\* A submission whose form reset threw: the deep link was opened, the
\* generic error is shown and the button is idle again.
C8_Witness ==
    \E s \in Submits :
        /\ sub[s].pc = "failed"
        /\ Len(sub[s].opens) = 1
        /\ s \in successPanels
        /\ errorPanel = [id |-> s, kind |-> "generic", errors |-> <<GenericError>>]
        /\ button = IdleButton

Min(a, b) == IF a < b THEN a ELSE b

\* The documented live format of a typed value: the first 11 digits, as
\* (DD) DDDDD-DDDD over the digits present above 6 digits, (DD) D... for
\* 3 to 6 digits, bare up to 2 digits.
DocumentedFormat(raw) ==
    LET all == SelectSeq(raw, LAMBDA c : c \in Digits)
        d == SubSeq(all, 1, Min(Len(all), 11))
        n == Len(d)
    IN  IF n > 6
        THEN <<"(">> \o SubSeq(d, 1, 2) \o <<")", " ">> \o SubSeq(d, 3, 7)
             \o (IF n > 7 THEN <<"-">> \o SubSeq(d, 8, n) ELSE << >>)
        ELSE IF n > 2
        THEN <<"(">> \o SubSeq(d, 1, 2) \o <<")", " ">> \o SubSeq(d, 3, n)
        ELSE d

\* C9: after every input event the phone control holds the documented
\* format of the value the event found.
C9_LiveFormat == fields.phone = DocumentedFormat(phoneTyped)

\* The shape A@B.C: one '@' at position i, a '.' at a later position j, A, B
\* and C non-empty, and neither whitespace nor another '@' anywhere.
EmailShape(s) ==
    \E i, j \in 1..Len(s) :
        /\ s[i] = "@"
        /\ s[j] = "."
        /\ 1 < i
        /\ i + 1 < j
        /\ j < Len(s)
        /\ \A k \in (1..Len(s)) \ {i} : s[k] \notin {" ", "@"}

\* C10: isValidEmail answers true exactly for the strings of shape A@B.C;
\* a@b.co is valid, a@b and a.b@c are invalid.
C10_EmailShape ==
    emailVerdict # "unchecked" =>
        /\ emailVerdict = "valid" <=> EmailShape(emailInput)
        /\ emailInput = <<"a", "@", "b", ".", "c", "o">> => emailVerdict = "valid"
        /\ emailInput = <<"a", "@", "b">> => emailVerdict = "invalid"
        /\ emailInput = <<"a", ".", "b", "@", "c">> => emailVerdict = "invalid"

\* A valid address with two dots after the '@' was checked.
C10_Witness ==
    /\ emailInput = <<"a", "@", "a", ".", ".", "a">>
    /\ emailVerdict = "valid"

\* The finger's displacement over the gesture that is ending: from where it
\* touched down to where it was last seen (the same place when it never
\* moved).
GestureDisplacement == startX - (IF moved THEN currentX ELSE startX)

\* C13: the touchend of a one-finger gesture changes the index only if the
\* finger's displacement exceeds 50 pixels: to nextSlide's index when the
\* displacement is positive, to prevSlide's otherwise; a gesture of at most 50
\* pixels, a tap included, leaves the index unchanged.
C13_Swipe ==
    [][(touches = 1 /\ isDragging /\ touches' = 0) =>
          currentSlide' =
              IF Abs(GestureDisplacement) > SwipeThreshold
              THEN IF GestureDisplacement > 0
                   THEN NextIndex(currentSlide, totalSlides)
                   ELSE PrevIndex(currentSlide, totalSlides)
              ELSE currentSlide]_vars

\* C14: the autoplay timer is stopped exactly when the pointer is over the
\* carousel or a finger is on it.
C14_AutoplayPaused ==
    carousel => ((pointerOver \/ touches > 0) <=> liveTimers = {})

\* The indices one handler can assign from the current state: prevSlide's,
\* nextSlide's (buttons, keys, swipe, autoplay tick) or an indicator's.
AssignedByOneHandler ==
    {PrevIndex(currentSlide, totalSlides), NextIndex(currentSlide, totalSlides)}
        \cup (0..(numIndicators - 1))

\* C19: every step that changes the index is the whole effect of one handler,
\* manual or autoplay: the new index is the one that handler assigns from the
\* index left by the handler before it, it lies in [0, N), and the rendered
\* state belongs to it (nothing lost, nothing torn).
C19_LastWriteWins ==
    [][currentSlide' # currentSlide =>
          /\ currentSlide' \in AssignedByOneHandler
          /\ currentSlide' \in 0..(totalSlides - 1)
          /\ trackTranslateX' = (-currentSlide') * TrackStep
          /\ activeCards' = {currentSlide'}]_vars

\* The carousel's box, rows rectTop .. rectTop + CarouselHeight - 1, shares a
\* row with the viewport, rows 0 .. InnerHeight - 1.
BoxIntersectsViewport ==
    \E y \in rectTop..(rectTop + CarouselHeight - 1) : y \in 0..(InnerHeight - 1)

\* C20: an ArrowLeft / ArrowRight keydown applies prevSlide / nextSlide when
\* the carousel's box intersects the viewport and changes neither the index
\* nor the rendered state when it does not; another key changes neither.
C20_ArrowKeys ==
    [][/\ (lastKey' = "ArrowLeft" /\ BoxIntersectsViewport) =>
              currentSlide' = PrevIndex(currentSlide, totalSlides)
       /\ (lastKey' = "ArrowRight" /\ BoxIntersectsViewport) =>
              currentSlide' = NextIndex(currentSlide, totalSlides)
       /\ (lastKey' \in {"ArrowLeft", "ArrowRight"} /\ ~BoxIntersectsViewport) =>
              UNCHANGED <<currentSlide, trackTranslateX, activeCards, activeIndicators>>
       /\ lastKey' \notin {"none", "ArrowLeft", "ArrowRight"} =>
              UNCHANGED <<currentSlide, trackTranslateX, activeCards, activeIndicators>>
      ]_vars

\* ArrowRight was pressed with the carousel's bottom edge on the viewport's
\* top edge: the index is still the one a button click had set.
C20_Witness ==
    /\ carousel
    /\ totalSlides = 3
    /\ lastKey = "ArrowRight"
    /\ rectTop = -CarouselHeight
    /\ currentSlide = 1
    /\ run.kind = "next"
    /\ run.len = 1

\* The documented rules a form's data violates, in the order name, email,
\* phone, goal, each with its message.
DocumentedErrors(f) ==
    LET Rule(violated, message) == IF violated THEN <<message>> ELSE << >>
    IN     Rule(f.name \in {<< >>, <<" ", "A">>}, "Nome deve ter pelo menos 2 caracteres")
        \o Rule(f.email = << >>, "Email inválido")
        \o Rule(f.phone = << >>, "Telefone inválido")
        \o Rule(f.goal = "", "Selecione seu objetivo")

\* C18: a failed validation shows a panel listing exactly the violated rules,
\* with its own removal timer; a shown panel always has its timer pending, and
\* it leaves the form only when that timer fires or when a later failure
\* replaces it by a new panel, never through the timer of an earlier one.
C18_ErrorPanel ==
    /\ [](errorPanel # NoPanel => errorPanel.id \in errorTimers)
    /\ [][/\ \A s \in Submits :
               (sub[s].pc = "none" /\ sub'[s].pc = "rejected") =>
                   /\ errorPanel' = [id |-> s, kind |-> "validation",
                                     errors |-> DocumentedErrors(fields)]
                   /\ errorPanel'.errors # << >>
                   /\ s \in errorTimers'
          /\ (errorPanel # NoPanel /\ errorPanel' # errorPanel) =>
                \/ errorPanel' = NoPanel /\ errorPanel.id \notin errorTimers'
                \/ /\ errorPanel' # NoPanel
                   /\ sub[errorPanel'.id].pc \in {"none", "waiting"}
                   /\ sub'[errorPanel'.id].pc \in {"rejected", "failed"}
         ]_vars

\* Two failed submits; the first panel's timer has fired and the second
\* panel, listing the name and goal rules, is still shown with its timer.
C18_Witness ==
    /\ submitted = 2
    /\ sub[1].pc = "rejected"
    /\ sub[2].pc = "rejected"
    /\ errorTimers = {2}
    /\ errorPanel = [id |-> 2, kind |-> "validation",
                     errors |-> <<"Nome deve ter pelo menos 2 caracteres",
                                  "Selecione seu objetivo">>]

\* C11: background scroll is suppressed exactly when the mobile menu is open.
C11_ScrollLock == (bodyOverflow = "hidden") <=> navMenuActive

\* The events that close an open menu: a click on the toggle (by pointer or
\* by Enter / space), on a navigation link or outside, the debounced resize
\* at a width above the breakpoint, and Escape.
ClosingTrigger(event, width) ==
    \/ event \in {"toggle", "Enter", " ", "link", "outside", "Escape"}
    \/ event = "resize" /\ width > TabletBreakpoint

\* C12: the menu and the toggle carry 'active' together; from the open state
\* every closing trigger leads to the closed state; from the closed state a
\* toggle click opens the menu and every other trigger leaves the menu
\* closed and changes nothing: the classes, the body's overflow, the
\* toggle's ARIA attributes and the focus are as they were.
C12_MenuTransitions ==
    /\ [](navMenuActive = navToggleActive)
    /\ [][/\ (navMenuActive /\ ClosingTrigger(menuEvent', innerWidth)) =>
                 (~navMenuActive' /\ ~navToggleActive')
          /\ (~navMenuActive /\ menuEvent' \in {"toggle", "Enter", " "}) =>
                 (navMenuActive' /\ navToggleActive')
          /\ (~navMenuActive
                /\ menuEvent' \in {"link", "outside", "inside", "resize", "Escape"}) =>
                 /\ ~navMenuActive' /\ ~navToggleActive'
                 /\ UNCHANGED <<bodyOverflow, ariaExpanded, ariaLabel, activeElement>>
         ]_vars

\* A controller that is handed every element it looks up.
HasItsElements(ctrl, d) ==
    CASE ctrl = "NavigationManager" -> d.header /\ d.navToggle /\ d.navMenu
      [] ctrl = "AccessibilityManager" -> d.navToggle /\ d.navMenu
      [] ctrl = "FAQManager" -> d.faqQuestions
      [] ctrl = "TransformationsCarousel" -> d.carousel => d.track
      [] OTHER -> TRUE

AllControllers ==
    {AppControllers[i] : i \in 1..Len(AppControllers)}
        \cup {SectionControllers[i] : i \in 1..Len(SectionControllers)}

BootFinished ==
    /\ scriptPc \in {"end", "aborted"}
    /\ readyState # "loading"
    /\ domListeners = << >>

\* C15: when the bootstrap is over, every controller whose own elements are
\* on the page has been constructed, whichever elements of the other
\* controllers are absent.
C15_GracefulDegradation ==
    BootFinished =>
        \A ctrl \in AllControllers : HasItsElements(ctrl, dom) => ctrl \in constructed

AriaInSync ==
    /\ ariaExpanded = (IF navMenuActive THEN "true" ELSE "false")
    /\ ariaLabel = (IF navMenuActive THEN CloseLabel ELSE OpenLabel)

\* C16: every change of the menu's open state queues a record for the
\* observer; whenever no callback is pending the toggle's aria-expanded and
\* aria-label tell the menu's state, and a pending callback always runs.
C16_AriaSync ==
    /\ [][navMenuActive' # navMenuActive => mutationPending']_vars
    /\ [](~mutationPending => AriaInSync)
    /\ (mutationPending ~> (~mutationPending /\ AriaInSync))

\* The menu is open and the callback has announced it.
C16_Witness ==
    /\ navMenuActive
    /\ ~mutationPending
    /\ ariaExpanded = "true"
    /\ ariaLabel = CloseLabel

\* C17: with the focus on one of the menu's focusable elements, Tab on the
\* last moves it to the first, Shift+Tab on the first moves it to the last,
\* and no Tab or Shift+Tab moves it out of the menu.
C17_FocusTrap ==
    [][(InMenu(activeElement)
          /\ menuEvent' \in {"Tab", "ShiftTab", "TabOutside", "ShiftTabOutside"}) =>
            /\ InMenu(activeElement')
            /\ (menuEvent' = "Tab" /\ activeElement = numFocusable) => activeElement' = 1
            /\ (menuEvent' = "ShiftTab" /\ activeElement = 1) =>
                   activeElement' = numFocusable
      ]_vars

\* Tab pressed inside the open menu of three elements put the focus on the
\* first: it was pressed on the last.
C17_Witness ==
    /\ navMenuActive
    /\ numFocusable = 3
    /\ menuEvent = "Tab"
    /\ activeElement = 1

\* C25: at most one autoplay interval timer is live: autoplayInterval is null
\* with no live timer, or the handle of the only live timer.
C25_SingleTimer ==
    /\ Cardinality(liveTimers) <= 1
    /\ liveTimers = IF autoplayInterval = null THEN {} ELSE {autoplayInterval}

\* A touch gesture that started on the hovered carousel has ended and the
\* pointer has left: stopAutoplay and startAutoplay ran several times and one
\* timer is live.
C25_Witness ==
    /\ carousel
    /\ startX = SwipeThreshold + 1
    /\ touches = 0
    /\ ~isDragging
    /\ ~pointerOver
    /\ currentSlide = 1
    /\ autoplayInterval # null
    /\ liveTimers = {autoplayInterval}

\* C26: once no submission is in its simulated delay the submit control is
\* enabled, without 'loading' and with its original label, and every
\* completed submission has opened exactly one deep link.
C26_OverlappingSubmits ==
    (\A s \in Submits : sub[s].pc # "waiting") =>
        /\ button = IdleButton
        /\ \A s \in Submits : sub[s].pc = "done" => Len(sub[s].opens) = 1

\* C27: the aria-expanded of every FAQ question tells whether its item is
\* open.
C27_FaqAriaExpanded ==
    \A i \in FaqItemSet :
        faqAriaExpanded[i] = IF i \in faqActive THEN "true" ELSE "false"

\* C24: no piece of DOM state is written by two controllers.
C24_DisjointWrites == \A p \in MenuState : Cardinality(writers[p]) <= 1

\* The message validateForm pushes for the rule of a control.
RuleMessage(f) ==
    CASE f = "name" -> "Nome deve ter pelo menos 2 caracteres"
      [] f = "email" -> "Email inválido"
      [] f = "phone" -> "Telefone inválido"
      [] f = "goal" -> "Selecione seu objetivo"
      [] OTHER -> "none"

FormReports(f) ==
    \E i \in 1..Len(ValidationErrors(fields)) : ValidationErrors(fields)[i] = RuleMessage(f)

\* C28: the control that was blurred last, and not edited since, carries an
\* inline error exactly when validateForm reports its rule as violated for
\* the value it holds; no control carries two inline errors, and a control
\* edited last carries none.
C28_BlurAgreesWithSubmit ==
    /\ \A f \in Controls : fieldErrors[f] <= 1
    /\ \A f \in Controls \ {"message"} :
        lastBlur = f => (fieldErrors[f] = 1 <=> FormReports(f))

\* C21: after a run of the scroll handler the active links are exactly the
\* links of the sections whose span holds scrollY + SCROLL_OFFSET, and at
\* most one link is active.
C21_ActiveLink ==
    scrollHandled =>
        /\ Cardinality(activeLinks) <= 1
        /\ activeLinks = {i \in SectionSet : SectionContains(i, scrollY + ScrollOffset)}

\* C22: two invocations of the throttled handler are at least `limit` apart;
\* a trigger more than `limit` after every earlier invocation is invoked at
\* once; every invocation happens in the step of its own trigger, so a
\* discarded trigger is never run later.
C22_Throttle ==
    /\ \A i, j \in Calls(throttleLog) :
        i < j => throttleLog[j].at - throttleLog[i].at >= Limit
    /\ \A j \in Triggers(throttleLog) :
        (\A i \in Calls(throttleLog) : i < j => throttleLog[j].at - throttleLog[i].at > Limit)
            => (j + 1 \in Calls(throttleLog))
    /\ \A j \in Calls(throttleLog) :
        /\ j - 1 \in Triggers(throttleLog)
        /\ throttleLog[j - 1].at = throttleLog[j].at

====
